---- MODULE Spec2Model ----
(***************************************************************************)
(* Lively Pi (src/src/lively_pi.py): the JSON-backed wallpaper library     *)
(* (WallpaperLibrary), the process-lifecycle wrapper (WallpaperManager)    *)
(* and the command-line front end (main).                                  *)
(*                                                                         *)
(* Four specifications share the variables below:                          *)
(*   SpecDetect  _detect_type applied to one path                          *)
(*   SpecLib     one WallpaperLibrary object and its library.json          *)
(*   Spec        one WallpaperManager object and the player processes      *)
(*   SpecCLI     successive runs of main(), each a fresh OS process        *)
(***************************************************************************)
EXTENDS Integers, Sequences, FiniteSets, TLC

VARIABLES
    wallpapers,        \* WallpaperLibrary.wallpapers: list of WallpaperConfig
    library_file,      \* ~/.config/lively-pi/library.json on disk
    active_processes,  \* WallpaperManager.active_processes: list of handles (pids)
    procs,             \* OS view: procs[pid] = status of every player ever spawned
    dpath,             \* argument of _detect_type
    detected,          \* its return value ("none" before the call)
    op,                \* history: name of the last operation
    outcome,           \* history: how its external step (tool, spawn) ended
    wrote,             \* history: how its save_library ended ("none": not called)
    kind,              \* history: wallpaper_type of the record given to set_wallpaper
    sel,               \* history: position of the record selected for removal
    pre_wallpapers,    \* history: wallpapers before the last operation
    pre_active,        \* history: active_processes before the last operation
    sent,              \* history: calls the last operation made on handles, in order
    raised             \* history: the exception the last operation raised to its
                       \* caller ("none": it returned normally)

vars == <<wallpapers, library_file, active_processes, procs, dpath, detected,
          op, outcome, wrote, kind, sel, pre_wallpapers, pre_active, sent, raised>>

libVars == <<wallpapers, library_file, wrote, sel, pre_wallpapers>>
mgrVars == <<active_processes, procs, kind, pre_active, sent>>
detVars == <<dpath, detected>>

----------------------------------------------------------------------------
(* Bounds of the model *)

MaxPathLen == 3     \* tokens in a path given to _detect_type
MaxLen == 3         \* records in the in-memory library
MaxFileLen == 2     \* records in the library file the program starts from
MaxCliFileLen == 1  \* the same, for the runs of main()
MaxCliLen == 2      \* records in the library over the runs of main()
MaxCliProcs == 2    \* player processes spawned over the runs of main()
MaxProcs == 3       \* player processes ever spawned

----------------------------------------------------------------------------
(* WallpaperType and WallpaperConfig *)

\* enum members
IMAGE == "IMAGE"
VIDEO == "VIDEO"
WEB == "WEB"
STREAM == "STREAM"
WallpaperType == {IMAGE, VIDEO, WEB, STREAM}

\* member.value: the string written to the file
TypeValue(t) ==
    CASE t = IMAGE -> "image"
      [] t = VIDEO -> "video"
      [] t = WEB -> "web"
      [] t = STREAM -> "stream"

TypeValues == {TypeValue(t) : t \in WallpaperType}

\* WallpaperType(value): the member with that value (ValueError is IsTypeValue = FALSE)
IsTypeValue(v) == v \in TypeValues
TypeOfValue(v) == CHOOSE t \in WallpaperType : TypeValue(t) = v

\* properties mappings (JSON objects) as sets of key/value pairs; the dataclass
\* default (None, replaced in __post_init__) is the empty one
EmptyProps == {}
SomeProps == {<<"speed", 2>>}

\* WallpaperConfig(path, wallpaper_type) with the dataclass defaults
WallpaperConfig(p, t) ==
    [path |-> p, wallpaper_type |-> t, monitor_id |-> -1,
     properties |-> EmptyProps, enabled |-> TRUE]

----------------------------------------------------------------------------
(* Paths are strings, modelled as sequences of tokens; each token stands   *)
(* for its own text and no two token sequences spell the same string.      *)

ExtTokens == {"jpg", "jpeg", "png", "bmp", "gif", "mp4", "avi", "mkv", "webm",
              "mov", "html", "htm", "JPG", "MP4", "txt"}
Tokens == {"http", "/", ".", "a"} \cup ExtTokens

\* str.lower() on a token
LowerTok(t) ==
    CASE t = "JPG" -> "jpg"
      [] t = "MP4" -> "mp4"
      [] OTHER -> t
Lower(s) == [i \in 1..Len(s) |-> LowerTok(s[i])]

\* index of the last occurrence of token t in s, 0 when there is none (str.rfind)
RFind(s, t) ==
    IF \E i \in 1..Len(s) : s[i] = t
    THEN CHOOSE i \in 1..Len(s) : s[i] = t /\ \A j \in (i+1)..Len(s) : s[j] # t
    ELSE 0

\* PurePath.name: the last component, after empty and "." components are dropped
RECURSIVE PathName(_)
PathName(p) ==
    LET k == RFind(p, "/")
        last == SubSeq(p, k + 1, Len(p))
    IN  IF p = << >> THEN << >>
        ELSE IF last = << >> \/ last = <<".">>
             THEN (IF k = 0 THEN << >> ELSE PathName(SubSeq(p, 1, k - 1)))
             ELSE last

\* PurePath.suffix: name[i:] for i = name.rfind('.') when 0 < i < len(name) - 1
PathSuffix(p) ==
    LET name == PathName(p)
        i == RFind(name, ".")
    IN  IF 1 < i /\ i < Len(name) THEN SubSeq(name, i, Len(name)) ELSE << >>

\* str.startswith('http')
StartsWithHttp(p) == Len(p) >= 1 /\ p[1] = "http"

ImageExts == {<<".", "jpg">>, <<".", "jpeg">>, <<".", "png">>, <<".", "bmp">>,
              <<".", "gif">>}
VideoExts == {<<".", "mp4">>, <<".", "avi">>, <<".", "mkv">>, <<".", "webm">>,
              <<".", "mov">>}
WebExts == {<<".", "html">>, <<".", "htm">>}

\* _detect_type with the URL test made before the extension tests
DetectHttpFirst(p) ==
    LET ext == Lower(PathSuffix(p))
    IN  IF StartsWithHttp(p) \/ ext \in WebExts THEN WEB
        ELSE IF ext \in ImageExts THEN IMAGE
        ELSE IF ext \in VideoExts THEN VIDEO
        ELSE IMAGE

\* WallpaperLibrary._detect_type
DetectType(p) ==
    LET ext == Lower(PathSuffix(p))
    IN  IF ext \in ImageExts THEN IMAGE
        ELSE IF ext \in VideoExts THEN VIDEO
        ELSE IF ext \in WebExts \/ StartsWithHttp(p) THEN WEB
        ELSE IMAGE

\* every non-empty path of at most MaxPathLen tokens
PathSet == UNION {[1..n -> Tokens] : n \in 1..MaxPathLen}

----------------------------------------------------------------------------
(* WallpaperLibrary: the in-memory list and library.json                   *)

\* files the user adds to the library, and the URL the user adds
LibPaths == {<<"a", ".", "jpg">>, <<"a", ".", "mp4">>}
UrlPath == <<"http", "/", "a">>

\* dict.get(key, default)
Get(item, key, default) == IF key \in DOMAIN item THEN item[key] ELSE default

\* the dict save_library writes for one record
Encode(w) ==
    [path |-> w.path, type |-> TypeValue(w.wallpaper_type),
     monitor_id |-> w.monitor_id, properties |-> w.properties,
     enabled |-> w.enabled]

EncodeAll(ws) == [i \in 1..Len(ws) |-> Encode(ws[i])]

\* item['path'] and WallpaperType(item['type']) raise nothing
GoodItem(item) ==
    /\ "path" \in DOMAIN item
    /\ "type" \in DOMAIN item
    /\ IsTypeValue(item.type)

\* the WallpaperConfig load_library builds from one dict of the file
Decode(item) ==
    [path |-> item.path, wallpaper_type |-> TypeOfValue(item.type),
     monitor_id |-> Get(item, "monitor_id", -1),
     properties |-> Get(item, "properties", EmptyProps),
     enabled |-> Get(item, "enabled", TRUE)]

\* the records the loop of load_library appends before it ends or an item raises
RECURSIVE Loaded(_)
Loaded(data) ==
    IF data = << >> THEN << >>
    ELSE IF GoodItem(Head(data)) THEN <<Decode(Head(data))>> \o Loaded(Tail(data))
    ELSE << >>

\* load_library that steps over a dict it cannot build a record from
LoadSkippingBad(ws, file) ==
    IF file.state = "json"
    THEN LET good == SelectSeq(file.data, GoodItem)
         IN  ws \o [i \in 1..Len(good) |-> Decode(good[i])]
    ELSE ws

\* load_library: self.wallpapers after the call, from list ws and the file
LoadLibraryResult(ws, file) ==
    IF file.state = "json" THEN ws \o Loaded(file.data) ELSE ws

\* the file states
MissingFile == [state |-> "missing", data |-> << >>]
MalformedFile == [state |-> "malformed", data |-> << >>]
JsonFile(data) == [state |-> "json", data |-> data]

\* save_library: the file after the call. how = "ok": written; "open_error":
\* open() raised, the file is untouched; "write_error": json.dump raised after
\* open() truncated the file, which is left with no complete JSON value.
SaveOutcomes == {"ok", "open_error", "write_error"}
SaveLibraryResult(ws, file, how) ==
    CASE how = "ok" -> JsonFile(EncodeAll(ws))
      [] how = "open_error" -> file
      [] how = "write_error" -> MalformedFile

\* list.remove(x): drops the first entry equal to x (dataclass __eq__ compares
\* the fields); i is the position of the selected object x in ws
FirstEqual(ws, i) == CHOOSE j \in 1..Len(ws) : ws[j] = ws[i] /\ \A k \in 1..(j-1) : ws[k] # ws[i]
RemoveAt(ws, j) == SubSeq(ws, 1, j - 1) \o SubSeq(ws, j + 1, Len(ws))
ListRemove(ws, i) == RemoveAt(ws, FirstEqual(ws, i))

\* dicts a library file may hold: a complete one, one that relies on the defaults
\* of load_library, one with a type outside the enum, one without a path
FileItems ==
    {[path |-> <<"a", ".", "mp4">>, type |-> "stream", monitor_id |-> 0,
      properties |-> SomeProps, enabled |-> FALSE],
     [path |-> <<"a", ".", "jpg">>, type |-> "image"],
     [path |-> <<"a", ".", "jpg">>, type |-> "gif"],
     [type |-> "image"]}

FilesUpTo(len) ==
    {MissingFile, MalformedFile}
    \cup {JsonFile(d) : d \in UNION {[1..n -> FileItems] : n \in 0..len}}

InitFiles == FilesUpTo(MaxFileLen)

----------------------------------------------------------------------------
(* Exceptions: what the external steps raise and what the try blocks catch *)

\* the classes an exception is an instance of ("none": nothing was raised)
Mro(exc) ==
    CASE exc = "FileNotFoundError" ->
            {"FileNotFoundError", "OSError", "Exception", "BaseException"}
      [] exc = "PermissionError" ->
            {"PermissionError", "OSError", "Exception", "BaseException"}
      [] exc = "OSError" -> {"OSError", "Exception", "BaseException"}
      [] exc = "TimeoutExpired" ->
            {"TimeoutExpired", "SubprocessError", "Exception", "BaseException"}
      [] exc = "JSONDecodeError" ->
            {"JSONDecodeError", "ValueError", "Exception", "BaseException"}
      [] exc = "ValueError" -> {"ValueError", "Exception", "BaseException"}
      [] exc = "KeyError" -> {"KeyError", "LookupError", "Exception", "BaseException"}
      [] OTHER -> {}

\* the except clauses: "except Exception", the two clauses of
\* _set_video_wallpaper, and the bare "except:"
ExceptException == {"Exception"}
ExceptVideo == {"FileNotFoundError", "Exception"}
BareExcept == {"BaseException"}

\* what leaves a try block with these clauses when exc is raised inside it
Uncaught(exc, clauses) == IF Mro(exc) \cap clauses = {} THEN exc ELSE "none"

\* the first exception of a sequence of steps ("none" for a step that raised
\* nothing to the enclosing code)
FirstRaised(excs) ==
    IF \E i \in 1..Len(excs) : excs[i] # "none"
    THEN excs[CHOOSE i \in 1..Len(excs) :
                  excs[i] # "none" /\ \A j \in 1..(i - 1) : excs[j] = "none"]
    ELSE "none"

\* How load_library goes:
\*   read          exists() answers and, the file being there, open() returns it
\*   open_error    the file is there and open() raises (it cannot be read)
\*   exists_error  exists() itself raises: stat() fails with something other than
\*                 "no such file" (the directory cannot be searched)
LoadOutcomes == {"read", "open_error", "exists_error"}
LoadPossible(file, how) == how = "open_error" => file.state # "missing"

\* what building the WallpaperConfig of one dict raises: item['path'] and
\* item['type'] a KeyError, WallpaperType(item['type']) a ValueError
ItemException(item) ==
    IF "path" \notin DOMAIN item \/ "type" \notin DOMAIN item THEN "KeyError"
    ELSE IF ~IsTypeValue(item.type) THEN "ValueError"
    ELSE "none"

\* what is raised inside the try block of load_library
LoadException(file, how) ==
    CASE how = "open_error" -> "PermissionError"
      [] how = "read" /\ file.state = "malformed" -> "JSONDecodeError"
      [] how = "read" /\ file.state = "json" ->
            FirstRaised([i \in 1..Len(file.data) |-> ItemException(file.data[i])])
      [] OTHER -> "none"

\* what load_library raises to its caller: the exists() test of line 86 stands
\* before the try
LoadRaised(file, how) ==
    IF how = "exists_error" THEN "PermissionError"
    ELSE Uncaught(LoadException(file, how), ExceptException)

\* load_library going how: self.wallpapers after the call
LoadLibraryCall(ws, file, how) ==
    IF how = "read" THEN LoadLibraryResult(ws, file) ELSE ws

\* what is raised inside the try block of save_library, and what leaves it
SaveException(how) ==
    CASE how = "open_error" -> "PermissionError"
      [] how = "write_error" -> "OSError"
      [] OTHER -> "none"
SaveRaised(how) == Uncaught(SaveException(how), ExceptException)

----------------------------------------------------------------------------
(* Values of the variables a specification does not use *)

NoLib ==
    /\ wallpapers = << >>
    /\ library_file = MissingFile
    /\ wrote = "none"
    /\ sel = 0
    /\ pre_wallpapers = << >>

NoMgr ==
    /\ active_processes = << >>
    /\ procs = << >>
    /\ kind = "none"
    /\ pre_active = << >>
    /\ sent = << >>

NoDetect ==
    /\ dpath = << >>
    /\ detected = "none"

----------------------------------------------------------------------------
(* SpecDetect: _detect_type on every path of the bounded set *)

InitDetect ==
    /\ dpath \in PathSet
    /\ detected = "none"
    /\ op = "init"
    /\ outcome = "none"
    /\ raised = "none"
    /\ NoLib
    /\ NoMgr

\* wallpaper_type = self._detect_type(path)
Detect ==
    /\ op = "init"
    /\ detected' = DetectType(dpath)
    /\ op' = "detect"
    /\ UNCHANGED <<dpath, outcome, raised, libVars, mgrVars>>

NextDetect == Detect

SpecDetect == InitDetect /\ [][NextDetect]_vars

----------------------------------------------------------------------------
(* SpecLib: one WallpaperLibrary object (the GUI's) and the library file *)

InitLib ==
    /\ library_file \in InitFiles
    /\ wallpapers = LoadLibraryResult(<< >>, library_file)
    /\ op = "new"
    /\ outcome = "read"
    /\ raised = "none"
    /\ wrote = "none"
    /\ sel = 0
    /\ pre_wallpapers = << >>
    /\ NoMgr
    /\ NoDetect

\* there is an object: the last __init__ did not raise
Constructed == ~(op = "new" /\ raised # "none")

\* WallpaperLibrary.__init__: a new object (the program is started again)
NewLibrary ==
    \E how \in LoadOutcomes :
        /\ LoadPossible(library_file, how)
        /\ wallpapers' = LoadLibraryCall(<< >>, library_file, how)
        /\ pre_wallpapers' = << >>
        /\ op' = "new"
        /\ outcome' = how
        /\ raised' = LoadRaised(library_file, how)
        /\ wrote' = "none"
        /\ sel' = 0
        /\ UNCHANGED <<library_file, mgrVars, detVars>>

\* WallpaperLibrary.load_library called on the existing object
LoadLibrary ==
    \E how \in LoadOutcomes :
        /\ Constructed
        /\ LoadPossible(library_file, how)
        /\ Len(LoadLibraryCall(wallpapers, library_file, how)) <= MaxLen
        /\ wallpapers' = LoadLibraryCall(wallpapers, library_file, how)
        /\ pre_wallpapers' = wallpapers
        /\ op' = "load"
        /\ outcome' = how
        /\ raised' = LoadRaised(library_file, how)
        /\ wrote' = "none"
        /\ sel' = 0
        /\ UNCHANGED <<library_file, mgrVars, detVars>>

\* WallpaperLibrary.save_library
SaveLibrary ==
    \E how \in SaveOutcomes :
        /\ Constructed
        /\ library_file' = SaveLibraryResult(wallpapers, library_file, how)
        /\ pre_wallpapers' = wallpapers
        /\ op' = "save"
        /\ outcome' = "none"
        /\ raised' = SaveRaised(how)
        /\ wrote' = how
        /\ sel' = 0
        /\ UNCHANGED <<wallpapers, mgrVars, detVars>>

\* the list after add_wallpaper(path, wallpaper_type); t = "None" is the default
AddResult(ws, p, t) ==
    Append(ws, WallpaperConfig(p, IF t = "None" THEN DetectType(p) ELSE t))

\* WallpaperLibrary.add_wallpaper, as add_file_wallpaper and dropEvent call it
\* (a file, no type) and as add_url_wallpaper calls it (a URL, WallpaperType.WEB)
AddWallpaper ==
    \E a \in {<<p, "None">> : p \in LibPaths} \cup {<<UrlPath, WEB>>},
       how \in SaveOutcomes :
        /\ Constructed
        /\ Len(wallpapers) < MaxLen
        /\ wallpapers' = AddResult(wallpapers, a[1], a[2])
        /\ library_file' = SaveLibraryResult(wallpapers', library_file, how)
        /\ pre_wallpapers' = wallpapers
        /\ op' = "add"
        /\ outcome' = "none"
        /\ raised' = SaveRaised(how)
        /\ wrote' = how
        /\ sel' = 0
        /\ UNCHANGED <<mgrVars, detVars>>

\* MainWindow.remove_wallpaper: item i of the list widget is selected; the
\* widget's items are the objects of self.library.wallpapers, in order
RemoveWallpaper ==
    \E i \in 1..Len(wallpapers), how \in SaveOutcomes :
        /\ Constructed
        /\ wallpapers' = ListRemove(wallpapers, i)
        /\ library_file' = SaveLibraryResult(wallpapers', library_file, how)
        /\ pre_wallpapers' = wallpapers
        /\ op' = "remove"
        /\ outcome' = "none"
        /\ raised' = SaveRaised(how)
        /\ wrote' = how
        /\ sel' = i
        /\ UNCHANGED <<mgrVars, detVars>>

NextLib ==
    \/ NewLibrary
    \/ LoadLibrary
    \/ SaveLibrary
    \/ AddWallpaper
    \/ RemoveWallpaper

SpecLib == InitLib /\ [][NextLib]_vars

----------------------------------------------------------------------------
(* WallpaperManager: tracked handles and the player processes              *)
(* A handle is the pid of the process; procs[pid] is "running", "paused"   *)
(* (stopped by SIGSTOP) or "exited" (it has ended, or SIGKILL has been     *)
(* delivered to it and ends it).                                           *)

Range(f) == {f[i] : i \in DOMAIN f}

Call(p, c, ok) == [pid |-> p, call |-> c, ok |-> ok]

\* How the body of the stop_all loop can go for one process:
\*   exits             terminate() returns, wait(timeout=3) returns
\*   timeout_killed    terminate() returns, wait raises TimeoutExpired, kill() returns
\*   timeout_killfail  the same, and kill() raises
\*   termfail_killed   terminate() raises, kill() returns
\*   termfail_killfail terminate() raises, kill() raises
\* A process stopped by SIGSTOP does not act on SIGTERM, so its wait times out;
\* the wait for a process that has already exited returns at once.
StopWays == {"exits", "timeout_killed", "timeout_killfail", "termfail_killed",
             "termfail_killfail"}
StopWayPossible(status, way) ==
    /\ way = "exits" => status # "paused"
    /\ way \in {"timeout_killed", "timeout_killfail"} => status # "exited"

\* stop_all's loop body without the kill in the except branch
StopCallsNoKill(p, way) ==
    CASE way = "exits" ->
            <<Call(p, "terminate", TRUE), Call(p, "wait", TRUE)>>
      [] way \in {"timeout_killed", "timeout_killfail"} ->
            <<Call(p, "terminate", TRUE), Call(p, "wait", FALSE)>>
      [] way \in {"termfail_killed", "termfail_killfail"} ->
            <<Call(p, "terminate", FALSE)>>

\* the calls the loop body of stop_all makes on handle p, in order
StopCalls(p, way) ==
    CASE way = "exits" ->
            <<Call(p, "terminate", TRUE), Call(p, "wait", TRUE)>>
      [] way = "timeout_killed" ->
            <<Call(p, "terminate", TRUE), Call(p, "wait", FALSE),
              Call(p, "kill", TRUE)>>
      [] way = "timeout_killfail" ->
            <<Call(p, "terminate", TRUE), Call(p, "wait", FALSE),
              Call(p, "kill", FALSE)>>
      [] way = "termfail_killed" ->
            <<Call(p, "terminate", FALSE), Call(p, "kill", TRUE)>>
      [] way = "termfail_killfail" ->
            <<Call(p, "terminate", FALSE), Call(p, "kill", FALSE)>>

\* the status of the process after them: SIGKILL ends it, a delivered SIGTERM
\* followed by a wait that returned means it has exited
StopStatus(status, way) ==
    IF way \in {"exits", "timeout_killed", "termfail_killed"} THEN "exited"
    ELSE status

\* the ways stop_all can go over the tracked list act
StopChoices(act, ps) ==
    {w \in [1..Len(act) -> StopWays] :
        \A i \in 1..Len(act) : StopWayPossible(ps[act[i]], w[i])}

\* every call of the loop of stop_all, in order
RECURSIVE StopAllCalls(_, _, _)
StopAllCalls(act, w, i) ==
    IF i > Len(act) THEN << >>
    ELSE StopCalls(act[i], w[i]) \o StopAllCalls(act, w, i + 1)

\* the processes after the loop of stop_all
StopAllProcs(act, ps, w) ==
    [p \in 1..Len(ps) |->
        IF \E i \in 1..Len(act) : act[i] = p
        THEN StopStatus(ps[p], w[CHOOSE i \in 1..Len(act) : act[i] = p])
        ELSE ps[p]]

\* stop_all that leaves the handles in the list
NotCleared(act) == act

\* self.active_processes.clear()
ClearedList(act) == << >>

\* How send_signal goes for each tracked process: it returns or it raises
SignalChoices(act) == [1..Len(act) -> BOOLEAN]

\* every player process ever spawned, tracked or not
AllPlayers(act, ps) == [i \in 1..Len(ps) |-> i]

\* the handles pause_all and resume_all loop over
SignalTargets(act, ps) == act

\* the calls of the loop of pause_all (sig = "SIGSTOP") or resume_all ("SIGCONT")
SignalCalls(tg, sig, w) == [i \in 1..Len(tg) |-> Call(tg[i], sig, w[i])]

\* the processes after it: a delivered SIGSTOP stops a running process, a
\* delivered SIGCONT continues a stopped one
SignalProcs(tg, ps, sig, w) ==
    [p \in 1..Len(ps) |->
        IF \E i \in 1..Len(tg) : tg[i] = p /\ w[i]
        THEN (CASE sig = "SIGSTOP" /\ ps[p] = "running" -> "paused"
                [] sig = "SIGCONT" /\ ps[p] = "paused" -> "running"
                [] OTHER -> ps[p])
        ELSE ps[p]]

\* How the step set_wallpaper dispatches to can end, by wallpaper_type
ImageResults == {"feh_ok", "feh_error", "gsettings_ok", "gsettings_error",
                 "no_tool", "exception"}
VideoResults == {"spawned", "FileNotFoundError", "Exception"}
WebResults == {"configured", "not_found", "exception"}
SetResults(k) ==
    CASE k = IMAGE -> ImageResults
      [] k = VIDEO -> VideoResults
      [] k = WEB -> WebResults
      [] OTHER -> {"nothing"}

\* the results after which no new wallpaper is shown
FailedResults == {"feh_error", "gsettings_error", "exception",
                  "FileNotFoundError", "Exception", "not_found"}

\* what a call on a handle raises: wait(timeout=3) TimeoutExpired, a signal
\* that cannot be delivered OSError
CallException(c) ==
    IF c.ok THEN "none"
    ELSE IF c.call = "wait" THEN "TimeoutExpired"
    ELSE "OSError"

\* what the loops of stop_all, pause_all and resume_all raise to their caller:
\* every call on a handle stands in a try block with a bare except
CallsRaised(calls) ==
    FirstRaised([i \in 1..Len(calls) |-> Uncaught(CallException(calls[i]), BareExcept)])

\* what is raised inside the try block of the step set_wallpaper dispatches to,
\* the clauses of that block, and what leaves it
SetException(k, res) ==
    CASE res = "exception" -> "OSError"
      [] res = "FileNotFoundError" -> "FileNotFoundError"
      [] res = "Exception" -> "PermissionError"
      [] OTHER -> "none"
SetClauses(k) == IF k = VIDEO THEN ExceptVideo ELSE ExceptException
SetRaised(k, res) == Uncaught(SetException(k, res), SetClauses(k))

\* self.active_processes.append(process)
SpawnTracked(act, pid) == Append(act, pid)

\* set_wallpaper that spawns the player without stop_all having emptied the list
SetActiveNoStop(act, ps, k, res) ==
    IF k = VIDEO /\ res = "spawned" THEN Append(act, Len(ps) + 1) ELSE act

\* set_wallpaper on the manager state (act, ps), for a record of type k, stop_all
\* going way w and the dispatched step ending res: the tracked list after the call
SetActive(act, ps, k, res) ==
    IF k = VIDEO /\ res = "spawned"
    THEN SpawnTracked(ClearedList(act), Len(ps) + 1)
    ELSE ClearedList(act)

\* set_wallpaper that dispatches without calling stop_all first
SetProcsNoStop(act, ps, k, res, w) ==
    IF k = VIDEO /\ res = "spawned" THEN Append(ps, "running") ELSE ps

\* set_wallpaper: the processes after the call
SetProcs(act, ps, k, res, w) ==
    IF k = VIDEO /\ res = "spawned"
    THEN Append(StopAllProcs(act, ps, w), "running")
    ELSE StopAllProcs(act, ps, w)

----------------------------------------------------------------------------
(* Spec: one WallpaperManager object (the GUI's) *)

Init ==
    /\ active_processes = << >>
    /\ procs = << >>
    /\ kind = "none"
    /\ pre_active = << >>
    /\ sent = << >>
    /\ op = "init"
    /\ outcome = "none"
    /\ raised = "none"
    /\ NoLib
    /\ NoDetect

\* WallpaperManager.set_wallpaper
SetWallpaper ==
    \E k \in WallpaperType :
      \E res \in SetResults(k), w \in StopChoices(active_processes, procs) :
        /\ res = "spawned" => Len(procs) < MaxProcs
        /\ active_processes' = SetActive(active_processes, procs, k, res)
        /\ procs' = SetProcs(active_processes, procs, k, res, w)
        /\ sent' = StopAllCalls(active_processes, w, 1)
        /\ pre_active' = active_processes
        /\ kind' = k
        /\ op' = "set"
        /\ outcome' = res
        /\ raised' = FirstRaised(<<CallsRaised(sent'), SetRaised(k, res)>>)
        /\ UNCHANGED <<libVars, detVars>>

\* WallpaperManager.stop_all (with nothing tracked the guard of line 266 skips
\* the loop and the clear: the same state as a loop over no handle)
StopAll ==
    \E w \in StopChoices(active_processes, procs) :
        /\ active_processes' = ClearedList(active_processes)
        /\ procs' = StopAllProcs(active_processes, procs, w)
        /\ sent' = StopAllCalls(active_processes, w, 1)
        /\ pre_active' = active_processes
        /\ kind' = "none"
        /\ op' = "stop"
        /\ outcome' = "returned"
        /\ raised' = CallsRaised(sent')
        /\ UNCHANGED <<libVars, detVars>>

\* WallpaperManager.pause_all
PauseAll ==
    \E w \in SignalChoices(SignalTargets(active_processes, procs)) :
        /\ procs' = SignalProcs(SignalTargets(active_processes, procs), procs, "SIGSTOP", w)
        /\ sent' = SignalCalls(SignalTargets(active_processes, procs), "SIGSTOP", w)
        /\ pre_active' = active_processes
        /\ kind' = "none"
        /\ op' = "pause"
        /\ outcome' = "returned"
        /\ raised' = CallsRaised(sent')
        /\ UNCHANGED <<active_processes, libVars, detVars>>

\* WallpaperManager.resume_all
ResumeAll ==
    \E w \in SignalChoices(SignalTargets(active_processes, procs)) :
        /\ procs' = SignalProcs(SignalTargets(active_processes, procs), procs, "SIGCONT", w)
        /\ sent' = SignalCalls(SignalTargets(active_processes, procs), "SIGCONT", w)
        /\ pre_active' = active_processes
        /\ kind' = "none"
        /\ op' = "resume"
        /\ outcome' = "returned"
        /\ raised' = CallsRaised(sent')
        /\ UNCHANGED <<active_processes, libVars, detVars>>

\* the player runs on its own and may end at any time (the file cannot be
\* played, the display goes away); its handle stays where it is
PlayerExits ==
    \E p \in 1..Len(procs) :
        /\ procs[p] = "running"
        /\ procs' = [procs EXCEPT ![p] = "exited"]
        /\ sent' = << >>
        /\ pre_active' = active_processes
        /\ kind' = "none"
        /\ op' = "player_exits"
        /\ outcome' = "none"
        /\ raised' = "none"
        /\ UNCHANGED <<active_processes, libVars, detVars>>

Next ==
    \/ SetWallpaper
    \/ StopAll
    \/ PauseAll
    \/ ResumeAll
    \/ PlayerExits

Spec == Init /\ [][Next]_vars

----------------------------------------------------------------------------
(* SpecCLI: successive runs of main() from the command line. Every run is  *)
(* a new OS process: it builds its own WallpaperLibrary (from the file)    *)
(* and its own WallpaperManager (tracking nothing), handles one flag and   *)
(* returns. The variables hold the objects as they are when main returns;  *)
(* the player processes and the library file outlive the run.              *)

\* values of --monitor (default -1)
Monitors == {-1, 1}

\* the manager of a new run: WallpaperManager.__init__
NewManager == << >>

\* config.monitor_id = args.monitor, config being the last record of the list
SetMonitor(ws, m) == [ws EXCEPT ![Len(ws)].monitor_id = m]

\* the ways load_library goes in a run that gets past line 556
CliLoads == {how \in LoadOutcomes : LoadRaised(MissingFile, how) = "none"}

InitCLI ==
    /\ library_file \in FilesUpTo(MaxCliFileLen)
    /\ wallpapers = << >>
    /\ wrote = "none"
    /\ sel = 0
    /\ pre_wallpapers = << >>
    /\ op = "init"
    /\ outcome = "none"
    /\ raised = "none"
    /\ NoMgr
    /\ NoDetect

\* main: --set-wallpaper PATH [--monitor N]
CliSet ==
    \E p \in LibPaths \cup {UrlPath}, m \in Monitors, how \in SaveOutcomes :
      \E res \in SetResults(DetectType(p)), lhow \in CliLoads :
        LET lib == LoadLibraryCall(<< >>, library_file, lhow)
            added == AddResult(lib, p, "None")
            k == DetectType(p)
            w == CHOOSE c \in StopChoices(NewManager, procs) : TRUE
        IN  /\ LoadPossible(library_file, lhow)
            /\ Len(lib) < MaxCliLen
            /\ res = "spawned" => Len(procs) < MaxCliProcs
            /\ library_file' = SaveLibraryResult(added, library_file, how)
            /\ wallpapers' = SetMonitor(added, m)
            /\ pre_wallpapers' = lib
            /\ wrote' = how
            /\ active_processes' = SetActive(NewManager, procs, k, res)
            /\ procs' = SetProcs(NewManager, procs, k, res, w)
            /\ sent' = StopAllCalls(NewManager, w, 1)
            /\ pre_active' = NewManager
            /\ kind' = k
            /\ op' = "cli_set"
            /\ outcome' = res
            /\ raised' = FirstRaised(<<LoadRaised(library_file, lhow), SaveRaised(how),
                                       CallsRaised(sent'), SetRaised(k, res)>>)
            /\ UNCHANGED <<sel, detVars>>

\* what every run without --set-wallpaper leaves of the library
CliLibrary(lhow) ==
    /\ LoadPossible(library_file, lhow)
    /\ wallpapers' = LoadLibraryCall(<< >>, library_file, lhow)
    /\ pre_wallpapers' = << >>
    /\ wrote' = "none"
    /\ UNCHANGED <<library_file, sel, detVars>>

\* main: --list
CliList ==
    \E lhow \in CliLoads :
        /\ CliLibrary(lhow)
        /\ op' = "cli_list"
        /\ outcome' = "none"
        /\ raised' = LoadRaised(library_file, lhow)
        /\ active_processes' = NewManager
        /\ pre_active' = NewManager
        /\ sent' = << >>
        /\ kind' = "none"
        /\ UNCHANGED procs

\* main: --pause
CliPause ==
    \E w \in SignalChoices(SignalTargets(NewManager, procs)), lhow \in CliLoads :
        /\ CliLibrary(lhow)
        /\ procs' = SignalProcs(SignalTargets(NewManager, procs), procs, "SIGSTOP", w)
        /\ sent' = SignalCalls(SignalTargets(NewManager, procs), "SIGSTOP", w)
        /\ active_processes' = NewManager
        /\ pre_active' = NewManager
        /\ kind' = "none"
        /\ op' = "cli_pause"
        /\ outcome' = "returned"
        /\ raised' = FirstRaised(<<LoadRaised(library_file, lhow), CallsRaised(sent')>>)

\* main: --resume
CliResume ==
    \E w \in SignalChoices(SignalTargets(NewManager, procs)), lhow \in CliLoads :
        /\ CliLibrary(lhow)
        /\ procs' = SignalProcs(SignalTargets(NewManager, procs), procs, "SIGCONT", w)
        /\ sent' = SignalCalls(SignalTargets(NewManager, procs), "SIGCONT", w)
        /\ active_processes' = NewManager
        /\ pre_active' = NewManager
        /\ kind' = "none"
        /\ op' = "cli_resume"
        /\ outcome' = "returned"
        /\ raised' = FirstRaised(<<LoadRaised(library_file, lhow), CallsRaised(sent')>>)

\* main: --stop
CliStop ==
    \E w \in StopChoices(NewManager, procs), lhow \in CliLoads :
        /\ CliLibrary(lhow)
        /\ procs' = StopAllProcs(NewManager, procs, w)
        /\ sent' = StopAllCalls(NewManager, w, 1)
        /\ active_processes' = ClearedList(NewManager)
        /\ pre_active' = NewManager
        /\ kind' = "none"
        /\ op' = "cli_stop"
        /\ outcome' = "returned"
        /\ raised' = FirstRaised(<<LoadRaised(library_file, lhow), CallsRaised(sent')>>)

\* main: WallpaperLibrary() of line 556 raises; the run ends with a traceback
\* before the manager is built and before any flag is handled
CliCrash ==
    \E lhow \in LoadOutcomes \ CliLoads :
        /\ LoadPossible(library_file, lhow)
        /\ wallpapers' = << >>
        /\ pre_wallpapers' = << >>
        /\ wrote' = "none"
        /\ active_processes' = NewManager
        /\ pre_active' = NewManager
        /\ sent' = << >>
        /\ kind' = "none"
        /\ op' = "cli_crash"
        /\ outcome' = lhow
        /\ raised' = LoadRaised(library_file, lhow)
        /\ UNCHANGED <<library_file, procs, sel, detVars>>

\* a player started by an earlier run ends on its own
CliPlayerExits ==
    /\ PlayerExits

NextCLI ==
    \/ CliCrash
    \/ CliSet
    \/ CliList
    \/ CliPause
    \/ CliResume
    \/ CliStop
    \/ CliPlayerExits

SpecCLI == InitCLI /\ [][NextCLI]_vars

----------------------------------------------------------------------------
(* Claims *)

\* what a claim calls the extension of the path: the suffix, letter case aside
Ext(p) == Lower(PathSuffix(p))

\* the calls the last operation made on handle p, in order
CallsOn(p) == SelectSeq(sent, LAMBDA e : e.pid = p)

HasCall(p, c, ok) == \E i \in 1..Len(sent) : sent[i] = Call(p, c, ok)

\* C1, as stated: after set_wallpaper with a video record the tracked list holds
\* exactly one handle, the newly spawned player's, and no handle tracked before.
C1_OneHandleAlways ==
    (op = "set" /\ kind = VIDEO) =>
        /\ Len(active_processes) = 1
        /\ active_processes[1] = Len(procs)
        /\ Range(active_processes) \cap Range(pre_active) = {}

\* C1, amended: after set_wallpaper with a video record, when the player was
\* spawned the tracked list holds exactly one handle, the new player's, and no
\* handle tracked before; when the spawn failed the list is empty.
C1_OneHandleWhenSpawned ==
    (op = "set" /\ kind = VIDEO) =>
        IF outcome = "spawned"
        THEN /\ Len(active_processes) = 1
             /\ active_processes[1] = Len(procs)
             /\ Range(active_processes) \cap Range(pre_active) = {}
        ELSE active_processes = << >>

C1_Witness ==
    /\ op = "set"
    /\ kind = VIDEO
    /\ outcome = "spawned"
    /\ pre_active # << >>

\* C2, as stated: save_library followed by load_library (the save having written
\* the file, the load having read it) leaves a record list identical to the
\* saved one.
C2_SaveThenLoad ==
    [][(op = "save" /\ wrote = "ok" /\ op' = "load" /\ outcome' = "read")
          => wallpapers' = wallpapers]_vars

\* Beside C2: what a new WallpaperLibrary object reads from a file that
\* save_library wrote is the list that was saved.
RoundTripNewObject ==
    (op = "save" /\ wrote = "ok") =>
        LoadLibraryResult(<< >>, library_file) = wallpapers

\* C3, as stated: without a given type, every http-prefixed path is web whatever
\* its extension; any other path is image for .jpg/.png/.bmp/.gif, video for
\* .mp4/.avi/.mkv/.webm/.mov, web for .html/.htm and image otherwise.
C3_HttpAlwaysWeb ==
    detected # "none" =>
        IF StartsWithHttp(dpath) THEN detected = WEB
        ELSE /\ Ext(dpath) \in ImageExts => detected = IMAGE
             /\ Ext(dpath) \in VideoExts => detected = VIDEO
             /\ Ext(dpath) \in WebExts => detected = WEB
             /\ Ext(dpath) \notin ImageExts \cup VideoExts \cup WebExts
                    => detected = IMAGE

\* C3, amended: the extension is looked at first: .jpg/.png/.bmp/.gif is image,
\* .mp4/.avi/.mkv/.webm/.mov is video, .html/.htm is web; an http-prefixed path
\* is web unless its extension is an image extension (.jpeg included) or a video
\* extension; every other path is image.
C3_ExtensionFirst ==
    detected # "none" =>
        /\ Ext(dpath) \in {<<".", "jpg">>, <<".", "png">>, <<".", "bmp">>,
                           <<".", "gif">>} => detected = IMAGE
        /\ Ext(dpath) \in {<<".", "mp4">>, <<".", "avi">>, <<".", "mkv">>,
                           <<".", "webm">>, <<".", "mov">>} => detected = VIDEO
        /\ Ext(dpath) \in {<<".", "html">>, <<".", "htm">>} => detected = WEB
        /\ (StartsWithHttp(dpath) /\ Ext(dpath) \notin ImageExts \cup VideoExts)
                => detected = WEB
        /\ (~StartsWithHttp(dpath)
            /\ Ext(dpath) \notin VideoExts \cup WebExts) => detected = IMAGE
        /\ (StartsWithHttp(dpath) /\ Ext(dpath) = <<".", "jpeg">>)
                => detected = IMAGE

C3_Witness ==
    /\ detected = VIDEO
    /\ StartsWithHttp(dpath)

\* C4, as stated: after every operation that changes the in-memory library (add,
\* remove, the monitor assignment of --set-wallpaper) and whose save_library
\* wrote the file, the file holds exactly the in-memory list, field for field.
C4_FlushedOnMutation ==
    (op \in {"add", "remove", "cli_set"} /\ wrote = "ok") =>
        library_file = JsonFile(EncodeAll(wallpapers))

\* C5, as stated: removing the selected record deletes exactly the entry at its
\* position and leaves every other entry in place and in order.
C5_RemoveSelected ==
    op = "remove" => wallpapers = RemoveAt(pre_wallpapers, sel)

\* the kill() sent to p by the last operation raised
KillFailed(p) == HasCall(p, "kill", FALSE)

C7_CliReachesPlayers ==
    /\ op \in {"cli_pause", "cli_resume", "cli_stop"} =>
          \A p \in 1..Len(procs) : CallsOn(p) # << >>
    /\ op = "cli_stop" => \A p \in 1..Len(procs) : procs[p] = "exited"

\* C8: stop_all, pause_all and resume_all called with nothing tracked send no
\* signal, change no process, leave the list empty and return normally.
C8_NoOpOnEmpty ==
    [][(active_processes = << >> /\ op' \in {"stop", "pause", "resume"}) =>
          /\ sent' = << >>
          /\ procs' = procs
          /\ active_processes' = << >>
          /\ outcome' = "returned"
          /\ raised' = "none"]_vars

C8_Witness ==
    /\ op = "pause"
    /\ pre_active = << >>
    /\ \E p \in 1..Len(procs) : procs[p] = "running"

\* C9, as stated: load_library on a populated library object replaces the list
\* with the records of the file, so no record appears more often than in the file.
C9_ReloadReplaces ==
    (op = "load" /\ outcome = "read" /\ library_file.state = "json") =>
        wallpapers = Loaded(library_file.data)

\* C10, the parts about the order of the calls, for one process tracked when
\* stop_all was called: terminate comes first; kill is sent only after a
\* terminate that raised or a wait that timed out.
C10_Order(p) ==
    LET cs == CallsOn(p)
    IN  /\ cs # << >>
        /\ cs[1].call = "terminate"
        /\ \A i \in 1..Len(cs) : cs[i].call = "kill" =>
              /\ \E j \in 1..(i-1) : cs[j].call = "terminate"
              /\ \E j \in 1..(i-1) : cs[j].call \in {"terminate", "wait"} /\ ~cs[j].ok

\* p has received a signal of stop_all: a terminate or a kill that did not fail
C10_Received(p) == HasCall(p, "terminate", TRUE) \/ HasCall(p, "kill", TRUE)

C11_AtMostOneTracked ==
    /\ Len(active_processes) <= 1
    /\ (op = "set" /\ kind \in {IMAGE, WEB, STREAM}) => active_processes = << >>

C11_Witness ==
    /\ op = "set"
    /\ kind \in {IMAGE, WEB, STREAM}
    /\ Len(pre_active) = 1
    /\ Len(procs) >= 2

\* C12, as stated: set_wallpaper, pause_all, resume_all, stop_all, load_library,
\* save_library and add_wallpaper return normally whatever external step fails;
\* no exception reaches the caller.
C12_NothingPropagates ==
    op \in {"set", "pause", "resume", "stop", "load", "save", "add"} =>
        raised = "none"

\* Beside C12: the one failure that reaches the caller is that of the exists()
\* test with which load_library begins.
OnlyExistsTestPropagates ==
    raised # "none" => (op \in {"new", "load", "cli_crash"} /\ outcome = "exists_error")

\* the position of the first dict of the file that load_library cannot build a
\* record from (0: there is none), and the records of the dicts before it
FirstBad(data) ==
    IF \E k \in 1..Len(data) : ~GoodItem(data[k])
    THEN CHOOSE k \in 1..Len(data) :
             ~GoodItem(data[k]) /\ \A j \in 1..(k - 1) : GoodItem(data[j])
    ELSE 0
KeptRecords(data) == [i \in 1..(FirstBad(data) - 1) |-> Decode(data[i])]

\* a new library object has just read a file that holds a bad record
PrefixLoaded ==
    /\ op = "new"
    /\ outcome = "read"
    /\ library_file.state = "json"
    /\ FirstBad(library_file.data) # 0

====
